---- MODULE Spec2Model ----
(***************************************************************************)
(* The caching engine of algostack (src/modules/cache/cache.ts): a Dexie   *)
(* container of per-store tables, keyed by hashed query parameters, with   *)
(* per-store expiration, pruning and the reset on an upgrade error.        *)
(*                                                                         *)
(* A JavaScript value is a record [t, v]: a number, a string (here always  *)
(* an object-hash digest), an array, a plain object (its properties in     *)
(* insertion order), null or undefined.  A cache entry and a key object    *)
(* are functions from property names to values.                            *)
(***************************************************************************)
EXTENDS Integers, Sequences, FiniteSets, TLC

VARIABLES configs, schema, dbTables, tables, dbOpen, now, ops, last, written, resetRan,
          calls

vars == <<configs, schema, dbTables, tables, dbOpen, now, ops, last, written, resetRan,
          calls>>

(***************************************************************************)
(* Bounds of the model.                                                    *)
(***************************************************************************)
\* The number of saves that change the container.
MaxOps == 2

(***************************************************************************)
(* JavaScript values.                                                      *)
(***************************************************************************)
Num(n) == [t |-> "num", v |-> n]
Str(c) == [t |-> "str", v |-> c]
Arr(s) == [t |-> "arr", v |-> s]
Obj(ps) == [t |-> "obj", v |-> ps]
Null == [t |-> "null", v |-> 0]
Undef == [t |-> "undef", v |-> 0]

\* The property names used inside nested parameter objects, in the order
\* object-hash sorts them.
AlphaOrder == <<"a", "b">>

KeyRank(k) == CHOOSE i \in 1..Len(AlphaOrder) : AlphaOrder[i] = k

RECURSIVE CanonFrom(_, _)
CanonFrom(ps, i) ==
  IF i > Len(AlphaOrder) THEN <<>>
  ELSE SelectSeq(ps, LAMBDA p : p[1] = AlphaOrder[i]) \o CanonFrom(ps, i + 1)

\* object-hash serialises an object with its keys sorted.
Canon(ps) == CanonFrom(ps, 1)

\* The digest of a serialisation; taken to be collision free.
RECURSIVE Digest(_)
Digest(s) ==
  IF s = <<>> THEN 0
  ELSE Digest(SubSeq(s, 1, Len(s) - 1)) * 16 + KeyRank(s[Len(s)][1]) * 4 + s[Len(s)][2]

ObjHashInsertionOrder(value) ==
  IF value.t = "null" THEN Str(0) ELSE Str(1 + Digest(value.v))

\* objHash(value), line 192: the digest of the key-sorted serialisation.
ObjHash(value) ==
  IF value.t = "null" THEN Str(0) ELSE Str(1 + Digest(Canon(value.v)))

HashObjectPropsRehash(entry) ==
  LET hashed == [k \in DOMAIN entry |->
                   IF entry[k].t \in {"obj", "null"} THEN ObjHash(entry[k])
                   ELSE IF entry[k].t = "str" THEN Str(entry[k].v + 4096)
                   ELSE entry[k]]
  IN  [k \in {f \in DOMAIN entry : entry[f].t \notin {"null", "undef"}} |-> hashed[k]]

HashObjectPropsKeepNull(entry) ==
  LET hashed == [k \in DOMAIN entry |->
                   IF entry[k].t \in {"obj", "null"} THEN ObjHash(entry[k])
                   ELSE entry[k]]
  IN  [k \in {f \in DOMAIN entry : entry[f].t # "undef"} |-> hashed[k]]

\* hashObjectProps: every property whose value is an object and no array is
\* replaced by its hash; a null or undefined property is deleted.
HashObjectProps(entry) ==
  LET hashed == [k \in DOMAIN entry |->
                   IF entry[k].t \in {"obj", "null"} THEN ObjHash(entry[k])
                   ELSE entry[k]]
  IN  [k \in {f \in DOMAIN entry : entry[f].t \notin {"null", "undef"}} |-> hashed[k]]

(***************************************************************************)
(* Configuration and expiration.                                           *)
(***************************************************************************)
\* A duration string is its magnitude and its unit suffix: '2s' is <<2, "s">>.
DefaultExpiration ==
  [s \in {"default", "indexer/asset", "indexer/assetBalances",
          "indexer/assetTransactions", "indexer/assets", "indexer/block",
          "indexer/transaction", "node/account", "node/teal", "nfd/lookup",
          "nfd/search", "addons/icon", "medias/asset"} |->
     CASE s = "default" -> <<1, "h">>
       [] s = "indexer/asset" -> <<1, "w">>
       [] s = "indexer/assetBalances" -> <<2, "s">>
       [] s = "indexer/assetTransactions" -> <<2, "s">>
       [] s = "indexer/assets" -> <<5, "m">>
       [] s = "indexer/block" -> <<1, "w">>
       [] s = "indexer/transaction" -> <<1, "w">>
       [] s = "node/account" -> <<10, "s">>
       [] s = "node/teal" -> <<6, "h">>
       [] s = "nfd/lookup" -> <<1, "h">>
       [] s = "nfd/search" -> <<1, "m">>
       [] s = "addons/icon" -> <<1, "d">>
       [] s = "medias/asset" -> <<1, "d">>]

\* The constructor's merge of the caller's configs over the defaults.
MergeConfigs(c) ==
  [namespace |-> "algostack",
   stores |-> c.stores,
   logExpiration |-> c.logExpiration,
   expiration |-> c.expiration @@ DefaultExpiration]

UnitMs(u) ==
  CASE u = "s" -> 1000
    [] u = "m" -> 60 * 1000
    [] u = "h" -> 60 * 60 * 1000
    [] u = "d" -> 24 * 60 * 60 * 1000
    [] u = "w" -> 7 * 24 * 60 * 60 * 1000

DurationStringToMs(d) == d[1] * UnitMs(d[2])

\* getExpiration: the store's duration, or the default one.
GetExpiration(store) ==
  DurationStringToMs(
    IF store \in DOMAIN configs.expiration
    THEN configs.expiration[store]
    ELSE configs.expiration["default"])

IsExpiredInclusive(store, entry) == entry["timestamp"].v + GetExpiration(store) <= now

\* isExpired, line 208.
IsExpired(store, entry) == entry["timestamp"].v + GetExpiration(store) < now

(***************************************************************************)
(* The store schema built by init.  An index shape is the sequence of its  *)
(* key paths, the primary key first: '&address, nfd' is                    *)
(* <<"address", "nfd">>.                                                   *)
(***************************************************************************)
\* The stores of the query module, in the order init lists them.
QueryStores ==
  <<"indexer/account", "indexer/accountAssets", "indexer/accountApplications",
    "indexer/accountTransactions", "indexer/application", "indexer/applicationBox",
    "indexer/applicationBoxes", "indexer/asset", "indexer/assetBalances",
    "indexer/assetTransactions", "indexer/block", "indexer/txn",
    "node/account", "node/accountApplication", "node/accountAsset", "node/block",
    "node/blockProof", "node/blockTransactionProof", "node/teal",
    "indexer/applications", "indexer/accounts", "indexer/assets", "indexer/txns">>

Range(s) == {s[i] : i \in DOMAIN s}

RECURSIVE ExtraStores(_)
\* configs.stores.forEach: a later declaration of a name replaces an earlier
\* one; a bare name or a missing index gets '&params'.
ExtraStores(decls) ==
  IF decls = <<>> THEN <<>>
  ELSE LET d == decls[Len(decls)]
       IN  (d.name :> (IF d.index = <<>> THEN <<"params">> ELSE d.index))
             @@ ExtraStores(SubSeq(decls, 1, Len(decls) - 1))

InitStoresExtraWins(stack, cfg) ==
  LET q == IF stack.query THEN [s \in Range(QueryStores) |-> <<"params">>] ELSE <<>>
      n == IF stack.nfds
           THEN ("nfd/lookup" :> <<"address", "nfd">>) @@ ("nfd/search" :> <<"params">>)
           ELSE <<>>
      m == IF stack.medias THEN ("medias/asset" :> <<"id">>) ELSE <<>>
      stores == m @@ n @@ q
  IN  IF Len(cfg.stores) > 0 THEN ExtraStores(cfg.stores) @@ stores ELSE stores

\* init, lines 55-115.
InitStores(stack, cfg) ==
  LET q == IF stack.query THEN [s \in Range(QueryStores) |-> <<"params">>] ELSE <<>>
      n == IF stack.nfds
           THEN ("nfd/lookup" :> <<"address", "nfd">>) @@ ("nfd/search" :> <<"params">>)
           ELSE <<>>
      m == IF stack.medias THEN ("medias/asset" :> <<"id">>) ELSE <<>>
      stores == m @@ n @@ q
  IN  IF Len(cfg.stores) > 0 THEN stores @@ ExtraStores(cfg.stores) ELSE stores

RECURSIVE Dedupe(_)
Dedupe(s) ==
  IF s = <<>> THEN <<>>
  ELSE LET front == Dedupe(SubSeq(s, 1, Len(s) - 1))
       IN  IF s[Len(s)] \in Range(front) THEN front ELSE Append(front, s[Len(s)])

\* db.tables: the tables in the order of the keys of the stores object of
\* init (the caller's extra stores first, lines 111-114).
DbTables(cfg, stores) ==
  LET extra == [i \in DOMAIN cfg.stores |-> cfg.stores[i].name]
      names == extra \o QueryStores \o <<"nfd/lookup", "nfd/search", "medias/asset">>
  IN  Dedupe(SelectSeq(names, LAMBDA n : n \in DOMAIN stores))

(***************************************************************************)
(* The Dexie handle.                                                       *)
(***************************************************************************)
\* Names every JavaScript object answers to through its prototype chain.
ObjectPrototypeProps == {"constructor", "toString", "hasOwnProperty"}

\* this.db[store], lines 135, 166, 254: a table, another (truthy) member of
\* the handle, or undefined.
DbProp(store) ==
  IF store \in DOMAIN schema THEN "table"
  ELSE IF store \in ObjectPrototypeProps THEN "function"
  ELSE "undefined"

PrimKey(store) == schema[store][1]

Indexed(store, keyPath) == keyPath \in Range(schema[store])

\* The order of IndexedDB keys: numbers before strings before arrays.
TypeRank(x) == CASE x.t = "num" -> 1 [] x.t = "str" -> 2 [] x.t = "arr" -> 3

RECURSIVE SeqLess(_, _)
SeqLess(a, b) ==
  IF b = <<>> THEN FALSE
  ELSE IF a = <<>> THEN TRUE
  ELSE IF a[1] # b[1] THEN a[1] < b[1]
  ELSE SeqLess(Tail(a), Tail(b))

KeyLess(x, y) ==
  IF x.t # y.t THEN TypeRank(x) < TypeRank(y)
  ELSE IF x.t = "arr" THEN SeqLess(x.v, y.v)
  ELSE x.v < y.v

\* The rows of an index on keyPath, in the order of the index: by the
\* indexed value, then by primary key.  A row without the key path is not
\* in the index.
RowLess(x, y, keyPath, pk) ==
  \/ KeyLess(x[keyPath], y[keyPath])
  \/ x[keyPath] = y[keyPath] /\ KeyLess(x[pk], y[pk])

RECURSIVE IndexOrder(_, _, _)
IndexOrder(rows, keyPath, pk) ==
  LET have == {r \in rows : keyPath \in DOMAIN r}
  IN  IF have = {} THEN <<>>
      ELSE LET first == CHOOSE r \in have :
                          \A o \in have \ {r} : RowLess(r, o, keyPath, pk)
           IN  <<first>> \o IndexOrder(have \ {first}, keyPath, pk)

Reverse(s) == [i \in 1..Len(s) |-> s[Len(s) + 1 - i]]

PutAdd(rows, pk, entry) == rows \cup {entry}

\* table.put(entry), line 173: the row of the same primary key is replaced.
Put(rows, pk, entry) == {r \in rows : r[pk] # entry[pk]} \cup {entry}


\* handleError, lines 226-229: the names of the error and of its inner error.
IsUpgrade(error) == "UpgradeError" \in {error.name, error.inner}

(***************************************************************************)
(* Inputs.                                                                 *)
(***************************************************************************)
NoErr == [name |-> "", inner |-> ""]

\* What the underlying store may answer to a read or a write.
ErrInputs ==
  {NoErr,
   [name |-> "UpgradeError", inner |-> ""],
   [name |-> "OpenFailedError", inner |-> "UpgradeError"],
   [name |-> "AbortError", inner |-> ""]}

P12 == "params" :> Obj(<< <<"a", 1>>, <<"b", 2>> >>)
P21 == "params" :> Obj(<< <<"b", 2>>, <<"a", 1>> >>)
P2 == "params" :> Obj(<< <<"a", 2>> >>)
A1 == ("address" :> Num(1)) @@ ("nfd" :> Null)
A1N7 == ("address" :> Num(1)) @@ ("nfd" :> Num(7))
N7 == "nfd" :> Num(7)
A1Only == "address" :> Num(1)
A12U == ("address" :> Arr(<<1, 2>>)) @@ ("nfd" :> Undef)
P12TD == P12 @@ ("timestamp" :> Num(5)) @@ ("data" :> Num(9))

\* The object P12 as an earlier call has left it: hashObjectProps works on
\* the caller's object itself (const result = entry, line 188).
P12Reused == HashObjectProps(P12)

DataInputs == {Num(1), Num(2)}

SaveInputs ==
  ({"indexer/account"} \X {P12, P21, P2, P12TD, P12Reused})
    \cup ({"nfd/lookup"} \X {A1, A1N7, P2, A12U})
    \cup ({"unknown/store", "constructor"} \X {P12})

NoQuery ==
  [hasWhere |-> FALSE, where |-> <<>>, orderBy |-> "", order |-> "", filter |-> "",
   includeExpired |-> FALSE, hasLimit |-> FALSE, limit |-> 0]

Where(k) == [NoQuery EXCEPT !.hasWhere = TRUE, !.where = k]
Limit(q, n) == [q EXCEPT !.hasLimit = TRUE, !.limit = n]
WithExpired(q) == [q EXCEPT !.includeExpired = TRUE]

FindInputs ==
  ({"indexer/account"} \X
     {Where(P12), Where(P21), Where(P2), Where(A1), Where(P12Reused),
      WithExpired(Where(P21)), WithExpired(NoQuery), NoQuery,
      [NoQuery EXCEPT !.order = "desc"],
      [Where(P12) EXCEPT !.orderBy = "params"],
      [NoQuery EXCEPT !.filter = "data1"],
      Limit(NoQuery, 0), Limit(NoQuery, 1), Limit(NoQuery, 2),
      Limit(WithExpired(NoQuery), 1),
      Limit([NoQuery EXCEPT !.filter = "data1"], 1),
      Limit([NoQuery EXCEPT !.orderBy = "params"], 2),
      Limit([NoQuery EXCEPT !.orderBy = "params", !.order = "DESC"], 2)})
    \cup ({"nfd/lookup"} \X
            {Where(A1), Where(A1N7), Where(N7), WithExpired(Where(A1)), Where(A1Only),
             Limit([NoQuery EXCEPT !.orderBy = "nfd"], 2)})
    \cup ({"unknown/store", "constructor"} \X {Where(P12)})

\* The finds during which the underlying store may fail.
FaultyFinds == {<<"indexer/account", Where(P12)>>, <<"nfd/lookup", Where(A1)>>}

FindErrInputs(in) ==
  IF in \in FaultyFinds
  THEN {NoErr, [name |-> "UpgradeError", inner |-> ""], [name |-> "AbortError", inner |-> ""]}
  ELSE {NoErr}

PruneInputs ==
  {[kind |-> "all", names |-> <<>>],
   [kind |-> "one", names |-> <<"nfd/lookup">>],
   [kind |-> "list", names |-> <<"indexer/account", "nfd/lookup">>],
   [kind |-> "one", names |-> <<"unknown/store">>],
   [kind |-> "list", names |-> <<"unknown/store", "nfd/lookup">>]}

\* The instants of Date.now() at which calls are made, in milliseconds.
Instants == {0, 1000, 1001, 2001}

\* The host application's modules and the caller's configs.
StackInputs ==
  {[query |-> TRUE, nfds |-> TRUE, medias |-> TRUE, configs |->
      [stores |-> <<>>, logExpiration |-> FALSE, expiration |-> <<>>]],
   [query |-> TRUE, nfds |-> TRUE, medias |-> FALSE, configs |->
      [stores |-> << [name |-> "custom/bare", index |-> <<>>],
                     [name |-> "nfd/lookup", index |-> <<"id">>],
                     [name |-> "custom/indexed", index |-> <<"id", "tag">>],
                     [name |-> "medias/asset", index |-> <<"url">>] >>,
       logExpiration |-> TRUE,
       expiration |-> ("default" :> <<2, "s">>) @@ ("nfd/lookup" :> <<1, "s">>)]]}

(***************************************************************************)
(* The operations.  last is the call just made and its outcome; written   *)
(* and resetRan are history: the latest save the store applied to each     *)
(* primary key, and whether clearAll has run.  calls holds the calls in    *)
(* flight when calls overlap; it stays empty while they are made one after *)
(* the other.                                                              *)
(***************************************************************************)
Idle ==
  [op |-> "none", store |-> "", key |-> <<>>, query |-> NoQuery, data |-> Undef,
   arg |-> [kind |-> "all", names |-> <<>>], err |-> NoErr,
   kind |-> "void", val |-> <<>>, thrown |-> "", caught |-> "", log |-> <<>>,
   reset |-> FALSE,
   pruned |-> <<>>]

Init ==
  \E stack \in StackInputs :
    /\ configs = MergeConfigs(stack.configs)
    /\ schema = InitStores(stack, MergeConfigs(stack.configs))
    /\ dbTables = DbTables(MergeConfigs(stack.configs),
                            InitStores(stack, MergeConfigs(stack.configs)))
    /\ tables = [s \in DOMAIN InitStores(stack, MergeConfigs(stack.configs)) |-> {}]
    /\ dbOpen = TRUE
    /\ now = 0
    /\ ops = 0
    /\ last = Idle
    /\ written = <<>>
    /\ resetRan = FALSE
    /\ calls = <<>>

\* Date.now() moves on between two operations.
Tick ==
  /\ last.op = "none"
  /\ \E t \in Instants : t > now /\ now' = t
  /\ last' = Idle
  /\ UNCHANGED <<configs, schema, dbTables, tables, dbOpen, ops, written, resetRan, calls>>

\* The caller's filter predicates.
FilterPass(name, entry) ==
  CASE name = "data1" -> entry["data"] = Num(1)
    [] OTHER -> TRUE

\* Collection.limit(n), line 157.
TakeLimit(rows, n) == SubSeq(rows, 1, IF n < Len(rows) THEN n ELSE Len(rows))

\* Table.where(criteria) fails unless one of the key paths is indexed.
WhereFails(store, crit) == \A k \in DOMAIN crit : ~Indexed(store, k)

WhereRows(store, crit) ==
  {r \in tables[store] : \A k \in DOMAIN crit : k \in DOMAIN r /\ r[k] = crit[k]}

\* The rows of the collection find builds at lines 141-144, in its order.
Candidates(store, q) ==
  LET pk == PrimKey(store)
      base == IF q.orderBy # "" THEN
                LET o == IndexOrder(tables[store], q.orderBy, pk)
                IN  IF q.order \in {"desc", "DESC"} THEN Reverse(o) ELSE o
              ELSE IF q.hasWhere THEN
                IndexOrder(WhereRows(store, HashObjectProps(q.where)), pk, pk)
              ELSE IndexOrder(tables[store], pk, pk)
  IN  SelectSeq(base, LAMBDA r : FilterPass(q.filter, r))

Visible(store, q, rows) ==
  IF q.includeExpired THEN rows ELSE SelectSeq(rows, LAMBDA r : ~IsExpired(store, r))

\* The rows the cursor visits before the limit stops it.
Visited(store, q, rows) ==
  LET want == IF q.hasLimit /\ q.limit > 1 THEN q.limit ELSE 1
      seen(i) == Len(Visible(store, q, SubSeq(rows, 1, i)))
      stops == {i \in 1..Len(rows) : seen(i) >= want}
  IN  IF stops = {} THEN rows
      ELSE SubSeq(rows, 1, CHOOSE i \in stops : \A j \in stops : i <= j)

ExpirationLog(store, q, rows) ==
  IF q.includeExpired \/ ~configs.logExpiration THEN <<>>
  ELSE [i \in 1..Len(SelectSeq(Visited(store, q, rows), LAMBDA r : IsExpired(store, r)))
          |-> "warn: Cache entry has expired."]

\* The error find throws, or "" (lines 141-157 have no try).
FindThrows(store, q, err) ==
  LET ordered == q.orderBy # ""
  IN  IF DbProp(store) # "table" THEN "TypeError"
      ELSE IF ~ordered /\ q.order \in {"desc", "DESC"} THEN "TypeError"
      ELSE IF ordered /\ q.hasWhere THEN "TypeError"
      ELSE IF ~ordered /\ ~q.hasWhere /\ q.filter = "" /\ q.includeExpired
              /\ ~q.hasLimit THEN "TypeError"
      ELSE IF ~dbOpen THEN "DatabaseClosedError"
      ELSE IF err # NoErr THEN err.name
      ELSE IF ordered /\ ~Indexed(store, q.orderBy) THEN "SchemaError"
      ELSE IF q.hasWhere /\ WhereFails(store, HashObjectProps(q.where)) THEN "SchemaError"
      ELSE ""

FindDeletingExpired(store, q) ==
  IF DbProp(store) = "table" /\ ~q.includeExpired
  THEN [tables EXCEPT ![store] = {r \in @ : ~IsExpired(store, r)}]
  ELSE tables

\* The tables after a find: the filters of lines 144-145 and the reads of
\* lines 152-157 write nothing.
AfterFind(store, q) == tables

\* find, lines 130-158.
Find ==
  \E in \in FindInputs : \E err \in FindErrInputs(in) :
    LET store == in[1]
        q == in[2]
        call == [Idle EXCEPT !.op = "find", !.store = store, !.query = q, !.err = err]
    IN  /\ last.op = "none"
        /\ last' =
             IF DbProp(store) = "undefined"
             THEN [call EXCEPT !.kind = "nothing", !.err = NoErr,
                               !.log = <<"error: Store not found">>]
             ELSE IF FindThrows(store, q, err) # ""
             THEN [call EXCEPT !.kind = "raise", !.thrown = FindThrows(store, q, err),
                               !.err = IF FindThrows(store, q, err) = err.name
                                       THEN err ELSE NoErr]
             ELSE LET cand == Candidates(store, q)
                      rows == Visible(store, q, cand)
                      log == ExpirationLog(store, q, cand)
                  IN  IF q.hasLimit
                      THEN [call EXCEPT !.kind = "list", !.err = NoErr, !.log = log,
                                        !.val = TakeLimit(rows, q.limit)]
                      ELSE IF rows = <<>>
                      THEN [call EXCEPT !.kind = "nothing", !.err = NoErr, !.log = log]
                      ELSE [call EXCEPT !.kind = "entry", !.err = NoErr, !.log = log,
                                        !.val = <<rows[1]>>]
        /\ tables' = AfterFind(store, q)
        /\ UNCHANGED <<configs, schema, dbTables, dbOpen, now, ops, written, resetRan, calls>>

NewEntryKeyFieldsLast(key, data) ==
  HashObjectProps(key) @@ [data |-> data, timestamp |-> Num(now)]

\* The entry save builds at lines 167-171.
NewEntry(key, data) == [data |-> data, timestamp |-> Num(now)] @@ HashObjectProps(key)

\* The error save catches at line 175, or NoErr.
SaveCaught(store, key, data, err) ==
  IF DbProp(store) # "table" THEN [name |-> "TypeError", inner |-> ""]
  ELSE IF ~dbOpen THEN [name |-> "DatabaseClosedError", inner |-> ""]
  ELSE IF err # NoErr THEN err
  ELSE IF PrimKey(store) \notin DOMAIN NewEntry(key, data)
  THEN [name |-> "DataError", inner |-> ""]
  ELSE NoErr

\* clearAll: db.delete() destroys the container and closes the handle, which
\* nothing in the module opens again.
ClearedTables == [s \in DOMAIN tables |-> {}]

\* save, lines 165-178, with handleError and clearAll.
Save ==
  \E in \in SaveInputs, data \in DataInputs, err \in ErrInputs :
    LET store == in[1]
        key == in[2]
        call == [Idle EXCEPT !.op = "save", !.store = store, !.key = key, !.data = data]
        caught == SaveCaught(store, key, data, err)
        entry == NewEntry(key, data)
    IN  /\ last.op = "none"
        /\ ops < MaxOps
        /\ IF DbProp(store) = "undefined"
           THEN /\ last' = [call EXCEPT !.log = <<"error: Store not found">>]
                /\ UNCHANGED <<tables, dbOpen, written, resetRan>>
           ELSE IF caught = NoErr
           THEN /\ tables' = [tables EXCEPT ![store] = Put(@, PrimKey(store), entry)]
                /\ written' = (<<store, entry[PrimKey(store)]>> :>
                                 [key |-> key, data |-> data, timestamp |-> now])
                                @@ written
                /\ last' = call
                /\ UNCHANGED <<dbOpen, resetRan>>
           ELSE IF IsUpgrade(caught)
           THEN /\ tables' = ClearedTables
                /\ dbOpen' = FALSE
                /\ resetRan' = TRUE
                /\ last' = [call EXCEPT !.err = err, !.caught = caught.name,
                              !.reset = TRUE,
                              !.log = <<"warn: An error occured while upgrading IndexedDB tables. Clearing IndexedDB Cache.">>]
                /\ UNCHANGED written
           ELSE /\ last' = [call EXCEPT !.caught = caught.name,
                              !.err = IF caught = err THEN err ELSE NoErr]
                /\ UNCHANGED <<tables, dbOpen, written, resetRan>>
        /\ ops' = IF tables' # tables \/ dbOpen' # dbOpen THEN ops + 1 ELSE ops
        /\ UNCHANGED <<configs, schema, dbTables, now, calls>>

PruneErrInputs ==
  {NoErr, [name |-> "UpgradeError", inner |-> ""], [name |-> "AbortError", inner |-> ""]}

PruneStoresEveryTable(arg) == dbTables

\* The stores prune visits, lines 250-251.
PruneStores(arg) == IF arg.kind = "all" THEN dbTables ELSE arg.names

ExpiredRowsInclusive(store) ==
  {r \in tables[store] : r["timestamp"].v <= now - GetExpiration(store)}

ExpiredRowsNewer(store) ==
  {r \in tables[store] : r["timestamp"].v > now - GetExpiration(store)}

\* The rows prune deletes from a store, lines 255-258.
ExpiredRows(store) ==
  {r \in tables[store] : r["timestamp"].v < now - GetExpiration(store)}

\* The position in the list at which prune throws, or 0; and what it throws.
PruneFailAt(stores, err, errAt) ==
  LET bad == {i \in 1..Len(stores) :
                \/ DbProp(stores[i]) # "table"
                \/ ~dbOpen
                \/ err # NoErr /\ i = errAt}
  IN  IF bad = {} THEN 0 ELSE CHOOSE i \in bad : \A j \in bad : i <= j

PruneThrows(stores, err, errAt) ==
  LET i == PruneFailAt(stores, err, errAt)
  IN  IF i = 0 THEN ""
      ELSE IF DbProp(stores[i]) # "table" THEN "TypeError"
      ELSE IF ~dbOpen THEN "DatabaseClosedError"
      ELSE err.name

\* prune, lines 248-262.
Prune ==
  \E arg \in PruneInputs, err \in PruneErrInputs, errAt \in 1..2 :
    LET stores == PruneStores(arg)
        failAt == PruneFailAt(stores, err, errAt)
        done == IF failAt = 0 THEN Range(stores)
                ELSE {stores[i] : i \in 1..(failAt - 1)}
        thrown == PruneThrows(stores, err, errAt)
        call == [Idle EXCEPT !.op = "prune", !.arg = arg,
                   !.err = IF thrown # "" /\ thrown = err.name THEN err ELSE NoErr]
    IN  /\ last.op = "none"
        /\ err = NoErr => errAt = 1
        /\ tables' = [s \in DOMAIN tables |->
                        IF s \in done THEN tables[s] \ ExpiredRows(s) ELSE tables[s]]
        /\ last' = IF failAt # 0
                   THEN [call EXCEPT !.kind = "raise", !.thrown = thrown]
                   ELSE [call EXCEPT !.kind = "report",
                           !.pruned = [s \in {x \in done : ExpiredRows(x) # {}} |->
                                         Cardinality(ExpiredRows(s))]]
        /\ UNCHANGED <<configs, schema, dbTables, dbOpen, now, ops, written, resetRan, calls>>

\* The caller takes the outcome of its call; the calls of the model are made
\* one after the other.
Return ==
  /\ last.op # "none"
  /\ last' = Idle
  /\ UNCHANGED <<configs, schema, dbTables, tables, dbOpen, now, ops, written, resetRan,
                 calls>>

Next == Tick \/ Find \/ Save \/ Prune \/ Return

Spec == Init /\ [][Next]_vars

TypeOK ==
  /\ now \in Nat
  /\ dbOpen \in BOOLEAN
  /\ DOMAIN tables = DOMAIN schema

(***************************************************************************)
(* Overlapping calls.  save and prune are async functions: each runs to    *)
(* its await, the underlying store settles the awaited request later, and  *)
(* other calls and the clock move in between.  calls lists the calls in    *)
(* the order they were made.                                               *)
(***************************************************************************)
\* The number of calls that overlap.
MaxCalls == 3

RaceSaveInputs == {<<"indexer/account", P12>>, <<"nfd/lookup", A1N7>>}

RacePruneInputs ==
  {[kind |-> "one", names |-> <<"nfd/lookup">>],
   [kind |-> "list", names |-> <<"indexer/account", "nfd/lookup">>]}

RaceErrInputs ==
  {NoErr, [name |-> "UpgradeError", inner |-> ""], [name |-> "AbortError", inner |-> ""]}

\* What the underlying store may answer to a delete.
DeleteErrInputs == {NoErr, [name |-> "AbortError", inner |-> ""]}

\* The instants at which the clock is read while calls overlap.
RaceInstants == {0, 1001}

\* Date.now() moves on while calls are in flight.
RaceTick == Tick /\ now' \in RaceInstants

\* A call: pc is the request it awaits ("put", "delete") or "done"; applied
\* is the rank of its put among the puts the store applied, or 0; deleted is
\* the set of the calls whose entries a prune has deleted.
NoCall ==
  [op |-> "none", pc |-> "done", store |-> "", key |-> <<>>, data |-> Undef,
   entry |-> <<>>, applied |-> 0, caught |-> "", reset |-> FALSE,
   names |-> <<>>, i |-> 0, expirationLimit |-> 0, deleted |-> {}, pruned |-> <<>>,
   thrown |-> "", log |-> <<>>]

\* save up to its await, lines 166-173: the entry is built, with the
\* timestamp of this instant, and the put is requested.
SaveBegin ==
  \E in \in RaceSaveInputs, data \in DataInputs :
    LET call == [NoCall EXCEPT !.op = "save", !.store = in[1], !.key = in[2],
                               !.data = data]
    IN  /\ Len(calls) < MaxCalls
        /\ calls' = Append(calls,
                      IF DbProp(in[1]) = "undefined"
                      THEN [call EXCEPT !.log = <<"error: Store not found">>]
                      ELSE [call EXCEPT !.pc = "put", !.entry = NewEntry(in[2], data)])
        /\ UNCHANGED <<configs, schema, dbTables, tables, dbOpen, now, ops, last, written,
                       resetRan>>

PutEntryStampedAtWrite(call) == [call.entry EXCEPT !["timestamp"] = Num(now)]

\* The row the put of a call writes: the entry built at line 167.
PutEntry(call) == call.entry

\* The saves whose put the store has applied to a primary key of a store.
AppliedTo(store, pkv) ==
  {c \in DOMAIN calls : /\ calls[c].op = "save"
                        /\ calls[c].applied > 0
                        /\ calls[c].store = store
                        /\ calls[c].entry[PrimKey(store)] = pkv}

\* The save whose put the store applied last to a primary key.
Writer(store, pkv) ==
  CHOOSE c \in AppliedTo(store, pkv) :
    \A d \in AppliedTo(store, pkv) : calls[d].applied <= calls[c].applied

\* The put of line 173 settles and save goes on after its await, lines
\* 174-177, with handleError and clearAll.
PutSettle ==
  \E c \in DOMAIN calls, err \in RaceErrInputs :
    LET call == calls[c]
        caught == SaveCaught(call.store, call.key, call.data, err)
        rank == 1 + Cardinality({d \in DOMAIN calls : calls[d].applied > 0})
    IN  /\ call.op = "save"
        /\ call.pc = "put"
        /\ IF caught = NoErr
           THEN /\ tables' = [tables EXCEPT
                                ![call.store] = Put(@, PrimKey(call.store), PutEntry(call))]
                /\ calls' = [calls EXCEPT ![c] = [call EXCEPT !.pc = "done",
                                                              !.applied = rank]]
                /\ UNCHANGED <<dbOpen, resetRan>>
           ELSE IF IsUpgrade(caught)
           THEN /\ tables' = ClearedTables
                /\ dbOpen' = FALSE
                /\ resetRan' = TRUE
                /\ calls' = [calls EXCEPT ![c] = [call EXCEPT !.pc = "done",
                                                              !.caught = caught.name,
                                                              !.reset = TRUE]]
           ELSE /\ calls' = [calls EXCEPT ![c] = [call EXCEPT !.pc = "done",
                                                              !.caught = caught.name]]
                /\ UNCHANGED <<tables, dbOpen, resetRan>>
        /\ UNCHANGED <<configs, schema, dbTables, now, ops, last, written>>

\* The loop of prune reaches position i, lines 252-256: past the end it
\* returns the report; else it takes the table and the expiration limit of
\* this instant and requests the delete.
PruneVisit(call, i) ==
  IF i > Len(call.names) THEN [call EXCEPT !.pc = "done", !.i = i]
  ELSE IF DbProp(call.names[i]) # "table"
  THEN [call EXCEPT !.pc = "done", !.i = i, !.thrown = "TypeError"]
  ELSE [call EXCEPT !.pc = "delete", !.i = i,
                    !.expirationLimit = now - GetExpiration(call.names[i])]

\* prune up to its first await, lines 249-256.
PruneBegin ==
  \E arg \in RacePruneInputs :
    /\ Len(calls) < MaxCalls
    /\ calls' = Append(calls,
                  PruneVisit([NoCall EXCEPT !.op = "prune", !.names = PruneStores(arg)], 1))
    /\ UNCHANGED <<configs, schema, dbTables, tables, dbOpen, now, ops, last, written,
                   resetRan>>

\* The rows the delete requested at lines 256-258 removes.
ExpiredBefore(store, expirationLimit) ==
  {r \in tables[store] : r["timestamp"].v < expirationLimit}

\* The delete settles and the loop goes on, lines 256-260 and 252-256.
DeleteSettle ==
  \E c \in DOMAIN calls, err \in DeleteErrInputs :
    LET call == calls[c]
        store == call.names[call.i]
        gone == ExpiredBefore(store, call.expirationLimit)
    IN  /\ call.op = "prune"
        /\ call.pc = "delete"
        /\ IF ~dbOpen \/ err # NoErr
           THEN /\ calls' = [calls EXCEPT ![c] =
                               [call EXCEPT !.pc = "done",
                                  !.thrown = IF ~dbOpen THEN "DatabaseClosedError"
                                             ELSE err.name]]
                /\ UNCHANGED tables
           ELSE /\ tables' = [tables EXCEPT ![store] = @ \ gone]
                /\ calls' = [calls EXCEPT ![c] =
                               PruneVisit(
                                 [call EXCEPT
                                    !.deleted = @ \cup {Writer(store, r[PrimKey(store)]) :
                                                          r \in gone},
                                    !.pruned = IF gone = {} THEN @
                                               ELSE (store :> Cardinality(gone)) @@ @],
                                 call.i + 1)]
        /\ UNCHANGED <<configs, schema, dbTables, dbOpen, now, ops, last, written, resetRan>>

RaceNext == RaceTick \/ SaveBegin \/ PutSettle \/ PruneBegin \/ DeleteSettle

RaceSpec == Init /\ [][RaceNext]_vars

(***************************************************************************)
(* The properties.                                                         *)
(***************************************************************************)
\* The time-to-live of a store: its configured duration, or the default one.
SpecTTL(store) ==
  DurationStringToMs(IF store \in DOMAIN configs.expiration
                     THEN configs.expiration[store]
                     ELSE configs.expiration["default"])

Fresh(store, r) == r["timestamp"].v + SpecTTL(store) >= now

\* Two key objects with the same fields and values, the fields of a nested
\* object in any order.
StructEq(k1, k2) ==
  /\ DOMAIN k1 = DOMAIN k2
  /\ \A f \in DOMAIN k1 :
       IF k1[f].t = "obj" /\ k2[f].t = "obj"
       THEN Len(k1[f].v) = Len(k2[f].v) /\ Range(k1[f].v) = Range(k2[f].v)
       ELSE k1[f] = k2[f]

PlainWhere(q) ==
  q.hasWhere /\ q.orderBy = "" /\ q.order = "" /\ q.filter = "" /\ ~q.hasLimit

\* C1: a find whose where is structurally equal to the key fields of the
\* latest save applied to a primary key of the store returns the entry of
\* that save (its key, data and timestamp), when the entry has not expired,
\* the read does not fail and no reset has run.
C1_KeyDeterminism ==
  \A w \in DOMAIN written :
    ( /\ last.op = "find"
      /\ last.store = w[1]
      /\ PlainWhere(last.query)
      /\ StructEq(written[w].key, last.query.where)
      /\ last.err = NoErr
      /\ dbOpen
      /\ written[w].timestamp + SpecTTL(w[1]) >= now )
    => /\ last.kind = "entry"
       /\ last.val[1][PrimKey(w[1])] = w[2]
       /\ last.val[1]["data"] = written[w].data
       /\ last.val[1]["timestamp"] = Num(written[w].timestamp)

\* A find returned the entry saved under the same nested object written in
\* another order.
C1_Witness ==
  /\ last.op = "find"
  /\ last.kind = "entry"
  /\ PlainWhere(last.query)
  /\ \E w \in DOMAIN written :
       /\ w[1] = last.store
       /\ written[w].key # last.query.where
       /\ StructEq(written[w].key, last.query.where)
       /\ last.val[1]["data"] = written[w].data

\* C2: a store never holds two entries of the same primary key, and every
\* entry carries the data and the timestamp of the latest save the store
\* applied to its key.
C2_Overwrite ==
  \A s \in DOMAIN tables : \A r \in tables[s] :
    /\ \A o \in tables[s] : o[PrimKey(s)] = r[PrimKey(s)] => o = r
    /\ <<s, r[PrimKey(s)]>> \in DOMAIN written
    /\ r["data"] = written[<<s, r[PrimKey(s)]>>].data
    /\ r["timestamp"] = Num(written[<<s, r[PrimKey(s)]>>].timestamp)

\* Two saves were applied to one key, the second at a later instant with
\* other data, and the store holds the one entry of the second.
C2_Witness ==
  /\ last.op = "save"
  /\ ops = 2
  /\ dbOpen
  /\ Cardinality(DOMAIN written) = 1
  /\ last.store \in DOMAIN schema
  /\ \E r \in tables[last.store] :
       /\ tables[last.store] = {r}
       /\ r["timestamp"].v > 0
       /\ r["data"] = Num(1)

\* C3: a find that completes without includeExpired returns no entry with
\* timestamp + TTL < now, and returns the first (or first limit) of the
\* matching entries with timestamp + TTL >= now; with includeExpired it
\* returns the first of the matching entries whatever their age.
C3_ExpirationVisibility ==
  (last.op = "find" /\ last.store \in DOMAIN schema
     /\ last.kind \in {"entry", "nothing", "list"})
  => LET q == last.query
         s == last.store
         cand == Candidates(s, q)
         shown == IF q.includeExpired THEN cand
                  ELSE SelectSeq(cand, LAMBDA r : Fresh(s, r))
     IN  /\ ~q.includeExpired => \A i \in 1..Len(last.val) : Fresh(s, last.val[i])
         /\ IF q.hasLimit
            THEN last.val = SubSeq(shown, 1, IF q.limit < Len(shown) THEN q.limit
                                             ELSE Len(shown))
            ELSE IF shown = <<>> THEN last.kind = "nothing"
            ELSE last.kind = "entry" /\ last.val = <<shown[1]>>

\* A find hid an expired entry, the same find with includeExpired being
\* answered with it.
C3_Witness ==
  /\ last.op = "find"
  /\ last.kind = "nothing"
  /\ PlainWhere(last.query)
  /\ ~last.query.includeExpired
  /\ last.store \in DOMAIN schema
  /\ Candidates(last.store, last.query) # <<>>

\* C4: a find without where and orderBy that the store does not fail
\* returns, without a limit, the first matching entry or nothing, and with a
\* limit N the first N matching entries at most.
C4_LimitSemantics ==
  (last.op = "find" /\ last.store \in DOMAIN schema /\ dbOpen /\ last.err = NoErr
     /\ ~last.query.hasWhere /\ last.query.orderBy = "" /\ last.query.order = "")
  => LET q == last.query
         shown == Visible(last.store, q, Candidates(last.store, q))
     IN  IF q.hasLimit
         THEN /\ last.kind = "list"
              /\ Len(last.val) <= q.limit
              /\ last.val = SubSeq(shown, 1, Len(last.val))
         ELSE \/ last.kind = "nothing" /\ shown = <<>>
              \/ last.kind = "entry" /\ shown # <<>> /\ last.val = <<shown[1]>>

\* C5: when prune() without argument returns, every entry left in a store
\* has timestamp >= now - TTL, and the report gives for each store the
\* number of entries removed from it (no count standing for zero).
C5_PruneCorrectness ==
  [][ (last'.op = "prune" /\ last'.arg.kind = "all" /\ last'.kind = "report")
      => \A s \in DOMAIN tables' :
           /\ \A r \in tables'[s] : r["timestamp"].v >= now' - SpecTTL(s)
           /\ tables'[s] \subseteq tables[s]
           /\ Cardinality(tables[s]) - Cardinality(tables'[s])
                = (IF s \in DOMAIN last'.pruned THEN last'.pruned[s] ELSE 0) ]_vars

\* prune() removed entries of one store and left an entry in place.
C5_Witness ==
  /\ last.op = "prune"
  /\ last.arg.kind = "all"
  /\ last.kind = "report"
  /\ DOMAIN last.pruned # {}
  /\ \E s \in DOMAIN tables : tables[s] # {}

\* C6: an upgrade error of the underlying store during a find, a save or a
\* prune ends in the reset: clearAll has run and every store is empty.
C6_ResetOnCorruption ==
  (last.op \in {"find", "save", "prune"} /\ IsUpgrade(last.err))
  => (last.reset /\ \A s \in DOMAIN tables : tables[s] = {})

\* C7: once a reset has run, a save of well-formed key fields that the store
\* does not fail is applied: the store holds its entry.
C7_OperationalAfterReset ==
  ( /\ resetRan
    /\ last.op = "save"
    /\ last.store \in DOMAIN schema
    /\ last.err = NoErr
    /\ PrimKey(last.store) \in DOMAIN HashObjectProps(last.key) )
  => \E r \in tables[last.store] :
       /\ r[PrimKey(last.store)] = HashObjectProps(last.key)[PrimKey(last.store)]
       /\ r["data"] = last.data
       /\ r["timestamp"] = Num(now)

\* C8: a find or a save on a store name absent from the schema returns
\* nothing, raises nothing and leaves every store as it was.
C8_UnknownStore ==
  [][ (last'.op \in {"find", "save"} /\ last'.store \notin DOMAIN schema)
      => (last'.kind \in {"nothing", "void"} /\ tables' = tables) ]_vars

\* C9: a find whose read fails with an error that is no upgrade error returns
\* nothing and runs no reset.
C9_LookupFailureSwallowed ==
  (last.op = "find" /\ last.err # NoErr /\ ~IsUpgrade(last.err))
  => (last.kind = "nothing" /\ ~last.reset /\ dbOpen)

\* C10: a save whose write fails with an error that is no upgrade error logs
\* the failure, raises nothing, runs no reset and leaves every store as it
\* was.
C10_WriteFailureReported ==
  [][ (last'.op = "save" /\ last'.err # NoErr /\ ~IsUpgrade(last'.err))
      => /\ last'.log # <<>>
         /\ last'.kind # "raise"
         /\ ~last'.reset
         /\ tables' = tables ]_vars

\* C11: a prune called with a store name, or a list of names, of which one
\* is absent from the schema raises nothing: it returns its report, the
\* report counts nothing for the absent name, and the other named stores
\* are left without an entry older than their cutoff.
C11_PruneNeverRaises ==
  [][ ( /\ last'.op = "prune"
        /\ last'.arg.kind \in {"one", "list"}
        /\ last'.err = NoErr
        /\ dbOpen
        /\ \E n \in Range(last'.arg.names) : n \notin DOMAIN schema )
      => /\ last'.kind = "report"
         /\ \A n \in Range(last'.arg.names) \ DOMAIN schema : n \notin DOMAIN last'.pruned
         /\ \A s \in Range(last'.arg.names) \cap DOMAIN schema :
              \A r \in tables'[s] : r["timestamp"].v >= now' - SpecTTL(s) ]_vars

\* C12: a prune pass never deletes the entry of a save that was made after
\* the pass was started.
C12_PruneSaveRace ==
  \A p \in DOMAIN calls :
    calls[p].op = "prune" => \A c \in calls[p].deleted : c < p

\* C13: a reset runs only while no other call is in flight: the step in
\* which clearAll runs finds every other call done.
C13_ResetExclusive ==
  [][ (resetRan' /\ ~resetRan)
      => \A c \in DOMAIN calls :
           calls[c].pc # "done" => calls'[c].reset ]_vars

\* C14: once every save made to a primary key of a store is done, one of
\* them at least was applied, and neither a prune nor a reset has removed
\* the entry, the store holds one entry of that key, and it is the entry
\* (key, data and timestamp) built by the save whose put was applied last.
C14_LastSaveWins ==
  \A s \in DOMAIN tables : \A c \in DOMAIN calls :
    LET pk == PrimKey(s)
        same == {d \in DOMAIN calls : /\ calls[d].op = "save"
                                      /\ calls[d].store = s
                                      /\ calls[d].entry[pk] = calls[c].entry[pk]}
        applied == {d \in same : calls[d].applied > 0}
        final == CHOOSE d \in applied : \A e \in applied : calls[e].applied <= calls[d].applied
    IN  ( /\ calls[c].op = "save"
          /\ calls[c].store = s
          /\ \A d \in same : calls[d].pc = "done"
          /\ applied # {}
          /\ ~resetRan
          /\ \A p \in DOMAIN calls : final \notin calls[p].deleted )
        => {r \in tables[s] : r[pk] = calls[c].entry[pk]} = {calls[final].entry}

\* Two saves of one key with other data, made at two instants, overlapped:
\* the store applied the put of the second before the put of the first, and
\* holds the entry of the first.
C14_Witness ==
  \E c, d \in DOMAIN calls :
    /\ c < d
    /\ calls[c].op = "save" /\ calls[d].op = "save"
    /\ calls[c].pc = "done" /\ calls[d].pc = "done"
    /\ calls[c].store = calls[d].store
    /\ calls[c].key = calls[d].key
    /\ calls[c].data # calls[d].data
    /\ calls[c].entry["timestamp"] # calls[d].entry["timestamp"]
    /\ calls[c].applied > calls[d].applied
    /\ calls[d].applied > 0
    /\ tables[calls[c].store] = {calls[c].entry}

\* The index shape of a built-in store.
BuiltInShape(s) ==
  CASE s = "nfd/lookup" -> <<"address", "nfd">>
    [] s = "medias/asset" -> <<"id">>
    [] OTHER -> <<"params">>

\* The built-in stores of the feature areas the host enables.
EnabledStores(stack) ==
  (IF stack.query THEN Range(QueryStores) ELSE {})
    \cup (IF stack.nfds THEN {"nfd/lookup", "nfd/search"} ELSE {})
    \cup (IF stack.medias THEN {"medias/asset"} ELSE {})

\* C15: in the schema of init every built-in store of an enabled feature
\* area has its built-in index shape, whatever the caller declares under its
\* name; a store the caller declares under another name has the declared
\* index shape, or the shape '&params' when it declares none.
C15_SchemaMergePrecedence ==
  \A stack \in StackInputs :
    configs = MergeConfigs(stack.configs)
    => /\ \A s \in EnabledStores(stack) :
            s \in DOMAIN schema /\ schema[s] = BuiltInShape(s)
       /\ \A i \in DOMAIN configs.stores :
            LET d == configs.stores[i]
            IN  d.name \notin EnabledStores(stack)
                => /\ d.name \in DOMAIN schema
                   /\ schema[d.name] = IF d.index = <<>> THEN <<"params">> ELSE d.index

\* The caller declared a store under the name of a built-in one, a store
\* without an index and a store with one, and init has built the schema.
C15_Witness ==
  /\ \E i \in DOMAIN configs.stores :
       configs.stores[i].name = "nfd/lookup" /\ configs.stores[i].index # <<>>
  /\ schema["nfd/lookup"] = <<"address", "nfd">>
  /\ "custom/bare" \in DOMAIN schema
  /\ "custom/indexed" \in DOMAIN schema
  /\ schema["medias/asset"] = <<"url">>

\* C16: a find whose query has where and orderBy, on a store of the schema
\* that does not fail the read, raises nothing; every entry it returns
\* matches where, and the entries are in the order of the orderBy field,
\* ascending, or descending when order is 'desc' or 'DESC'.
C16_OrderedLookup ==
  ( /\ last.op = "find"
    /\ last.store \in DOMAIN schema
    /\ last.query.hasWhere
    /\ last.query.orderBy # ""
    /\ dbOpen
    /\ last.err = NoErr )
  => LET q == last.query
         crit == HashObjectProps(q.where)
     IN  /\ last.kind \in {"entry", "nothing", "list"}
         /\ \A i \in 1..Len(last.val) :
              \A k \in DOMAIN crit : k \in DOMAIN last.val[i] /\ last.val[i][k] = crit[k]
         /\ \A i \in 1..(Len(last.val) - 1) :
              LET x == last.val[i][q.orderBy]
                  y == last.val[i + 1][q.orderBy]
              IN  IF q.order \in {"desc", "DESC"}
                  THEN x = y \/ KeyLess(y, x)
                  ELSE x = y \/ KeyLess(x, y)

\* The fields of a key object that have a value.
Strip(k) == [f \in {g \in DOMAIN k : k[g].t \notin {"null", "undef"}} |-> k[f]]

\* C17: the entry a save stores has, for each key field holding an object
\* that is no array, the fingerprint of the object; for each key field
\* holding a scalar or an array, that value; and no field for a key field
\* holding null or nothing.  And a find whose where is the key of the latest
\* save applied to an entry, less its null fields, returns that entry.
C17_KeyNormalization ==
  /\ ( /\ last.op = "save"
       /\ last.store \in DOMAIN schema
       /\ last.caught = ""
       /\ last.log = <<>> )
     => \E r \in tables[last.store] :
          /\ r["timestamp"] = Num(now)
          /\ r["data"] = last.data
          /\ DOMAIN r \subseteq DOMAIN last.key \cup {"data", "timestamp"}
          /\ \A f \in DOMAIN last.key \ {"data", "timestamp"} :
               CASE last.key[f].t = "obj" -> f \in DOMAIN r /\ r[f] = ObjHash(last.key[f])
                 [] last.key[f].t \in {"null", "undef"} -> f \notin DOMAIN r
                 [] OTHER -> f \in DOMAIN r /\ r[f] = last.key[f]
  /\ \A w \in DOMAIN written :
       ( /\ last.op = "find"
         /\ last.store = w[1]
         /\ PlainWhere(last.query)
         /\ StructEq(Strip(written[w].key), Strip(last.query.where))
         /\ last.err = NoErr
         /\ dbOpen
         /\ written[w].timestamp + SpecTTL(w[1]) >= now )
       => /\ last.kind = "entry"
          /\ last.val[1]["data"] = written[w].data
          /\ last.val[1]["timestamp"] = Num(written[w].timestamp)

\* A find whose where has no nfd field returned the entry saved with a null
\* nfd field.
C17_Witness ==
  /\ last.op = "find"
  /\ last.kind = "entry"
  /\ "nfd" \notin DOMAIN last.query.where
  /\ \E w \in DOMAIN written :
       /\ w[1] = last.store
       /\ "nfd" \in DOMAIN written[w].key
       /\ written[w].key["nfd"] = Null
       /\ last.val[1]["timestamp"] = Num(written[w].timestamp)
       /\ "nfd" \notin DOMAIN last.val[1]

\* C18: every entry a store holds has a timestamp that is a number, the
\* instant of the save that wrote it, and the data of that save, also when
\* the key fields of the save have a field named timestamp or data.
C18_TimestampInvariant ==
  \A s \in DOMAIN tables : \A r \in tables[s] :
    /\ "timestamp" \in DOMAIN r
    /\ r["timestamp"].t = "num"
    /\ r["timestamp"].v <= now
    /\ <<s, r[PrimKey(s)]>> \in DOMAIN written
    /\ LET w == written[<<s, r[PrimKey(s)]>>]
       IN  /\ r["timestamp"].v = w.timestamp
           /\ ({"timestamp", "data"} \cap DOMAIN w.key # {}) => r["data"] = w.data

\* A store holds the entry of a save whose key fields had a timestamp and a
\* data field, written at a later instant than the first.
C18_Witness ==
  \E s \in DOMAIN tables : \E r \in tables[s] :
    /\ <<s, r[PrimKey(s)]>> \in DOMAIN written
    /\ {"timestamp", "data"} \subseteq DOMAIN written[<<s, r[PrimKey(s)]>>].key
    /\ r["timestamp"].v > 0
    /\ r["timestamp"] # written[<<s, r[PrimKey(s)]>>].key["timestamp"]

\* C19: a find leaves every store as it was; and an entry leaves a store
\* only by a prune, by a save to its key or by the reset, so that an
\* expired entry stays in its store over every find.
C19_FindReadOnly ==
  [][ /\ last'.op = "find" => tables' = tables
      /\ \A s \in DOMAIN tables : \A r \in tables[s] \ tables'[s] :
           \/ last'.op = "prune"
           \/ last'.op = "save" /\ last'.reset
           \/ /\ last'.op = "save"
              /\ last'.store = s
              /\ \E n \in tables'[s] : n[PrimKey(s)] = r[PrimKey(s)] ]_vars

\* A find with a limit, not asking for expired entries, was answered while
\* its store held an expired entry, which the store still holds.
C19_Witness ==
  /\ last.op = "find"
  /\ last.kind = "list"
  /\ ~last.query.includeExpired
  /\ last.store \in DOMAIN schema
  /\ \E r \in tables[last.store] : ~Fresh(last.store, r)

\* C20: a prune called with a store name or a list of names leaves every
\* store it was not given as it was, removes from a named store only
\* entries with timestamp < now - TTL(store), and leaves there every entry
\* with timestamp >= now - TTL(store).
C20_PruneFrame ==
  [][ (last'.op = "prune" /\ last'.arg.kind \in {"one", "list"})
      => \A s \in DOMAIN tables :
           IF s \in Range(last'.arg.names)
           THEN /\ tables'[s] \subseteq tables[s]
                /\ \A r \in tables[s] \ tables'[s] : r["timestamp"].v < now' - SpecTTL(s)
                /\ \A r \in tables[s] :
                     r["timestamp"].v >= now' - SpecTTL(s) => r \in tables'[s]
           ELSE tables'[s] = tables[s] ]_vars

\* A prune of one named store removed an expired entry from it and left an
\* expired entry in a store it was not given.
C20_Witness ==
  /\ last.op = "prune"
  /\ last.arg.kind = "one"
  /\ last.kind = "report"
  /\ DOMAIN last.pruned # {}
  /\ \E s \in DOMAIN tables \ Range(last.arg.names) :
       \E r \in tables[s] : r["timestamp"].v < now - SpecTTL(s)

\* A key object that a call has normalized already.
Normalized(k) == \A f \in DOMAIN k : k[f].t \notin {"obj", "null", "undef"}

\* C21: normalizing the key object of a call a second time changes nothing;
\* and a find given the object an earlier call has normalized returns the
\* entry saved under the fresh object, as a find given the fresh object
\* returns the entry saved under the object an earlier call has normalized.
C21_NormalizationIdempotent ==
  /\ last.op = "save" => HashObjectProps(HashObjectProps(last.key)) = HashObjectProps(last.key)
  /\ (last.op = "find" /\ last.query.hasWhere)
       => HashObjectProps(HashObjectProps(last.query.where))
            = HashObjectProps(last.query.where)
  /\ \A w \in DOMAIN written :
       ( /\ last.op = "find"
         /\ last.store = w[1]
         /\ PlainWhere(last.query)
         /\ Normalized(written[w].key) # Normalized(last.query.where)
         /\ \E k \in {written[w].key, last.query.where} :
              {written[w].key, last.query.where} = {k, HashObjectProps(k)}
         /\ last.err = NoErr
         /\ dbOpen
         /\ written[w].timestamp + SpecTTL(w[1]) >= now )
       => /\ last.kind = "entry"
          /\ last.val[1]["data"] = written[w].data
          /\ last.val[1]["timestamp"] = Num(written[w].timestamp)

\* A find given the object an earlier call had normalized returned the
\* entry saved under the fresh object.
C21_Witness ==
  /\ last.op = "find"
  /\ last.kind = "entry"
  /\ PlainWhere(last.query)
  /\ Normalized(last.query.where)
  /\ \E w \in DOMAIN written :
       /\ w[1] = last.store
       /\ ~Normalized(written[w].key)
       /\ last.query.where = HashObjectProps(written[w].key)
       /\ last.val[1]["data"] = written[w].data

\* The entries a prune would delete from each store are the entries a find
\* without includeExpired hides as expired, and the find just answered
\* without includeExpired returned the first of the others.
ExpiryAgrees ==
  /\ \A s \in DOMAIN tables : ExpiredRows(s) = {r \in tables[s] : IsExpired(s, r)}
  /\ ( /\ last.op = "find"
       /\ last.store \in DOMAIN schema
       /\ ~last.query.includeExpired
       /\ last.kind \in {"entry", "nothing", "list"} )
     => /\ \A i \in 1..Len(last.val) : last.val[i] \notin ExpiredRows(last.store)
        /\ last.val = TakeLimit(
                        SelectSeq(Candidates(last.store, last.query),
                                  LAMBDA r : r \notin ExpiredRows(last.store)),
                        IF last.query.hasLimit THEN last.query.limit ELSE 1)

\* C22: after every step, the entries a prune would delete from a store
\* are the entries a find without includeExpired hides as expired, and a
\* find without includeExpired returns none of them; and over every step an
\* entry that is expired, and is still the entry of its key, is expired
\* after the step.
C22_ExpiryMonotonic ==
  [][ /\ ExpiryAgrees'
      /\ \A s \in DOMAIN tables :
           \A r \in tables[s] \cap tables'[s] : IsExpired(s, r) => IsExpired(s, r)' ]_vars

\* A find hid, at the last instant, an entry that was expired at an earlier
\* instant already and that a prune would delete.
C22_Witness ==
  /\ last.op = "find"
  /\ last.kind = "nothing"
  /\ ~last.query.includeExpired
  /\ last.store \in DOMAIN schema
  /\ now = 2001
  /\ \E r \in ExpiredRows(last.store) :
       /\ r["timestamp"].v + SpecTTL(last.store) < 1001
       /\ \E i \in 1..Len(Candidates(last.store, last.query)) :
            Candidates(last.store, last.query)[i] = r

====
